---- MODULE Spec2Model ----
(***************************************************************************)
(* Model of the datetime tools of util_server.py: get_current_datetime and *)
(* calculate_time_difference.                                              *)
(*                                                                         *)
(* A datetime is [day, sec, us, tz]: the proleptic Gregorian ordinal of    *)
(* its civil date (date.toordinal()), the second of the civil day, the     *)
(* microsecond, and its tzinfo.  A timedelta is [days, seconds, us] in     *)
(* Python's normal form (0 <= seconds < 86400, 0 <= us < 10^6, the sign    *)
(* carried by days).  A count of whole seconds is kept as the pair         *)
(* (days, second of day) throughout, since the counts of the program       *)
(* (up to 3.2 * 10^11 seconds) do not fit 32-bit integers.                 *)
(***************************************************************************)
EXTENDS Integers, Sequences, FiniteSets, TLC

VARIABLES clock, ticks, call, result

vars == <<clock, ticks, call, result>>

\* Number of clock advances explored.
MaxTicks == 2

-----------------------------------------------------------------------------
(* Calendar arithmetic of datetime / timedelta.                            *)

\* timedelta's normal form: microseconds carried into seconds, seconds into
\* days.
NormTd(d, s, u) ==
    LET s1 == s + (u \div 1000000)
    IN  [days |-> d + (s1 \div 86400), seconds |-> s1 % 86400, us |-> u % 1000000]

\* -timedelta
NegTd(td) == NormTd(-td.days, -td.seconds, -td.us)

\* The UTC offset, in minutes, of an aware datetime's tzinfo.
utcoffset(tz) == tz.off

\* tzinfo objects: none (a naive datetime), a fixed offset
\* (datetime.timezone; timezone.utc is the fixed offset 0), or an instance
\* of a pytz zone, which carries one of the zone's offsets.
Naive == [kind |-> "naive", zone |-> "", off |-> 0]

FixedOffset(m) == [kind |-> "fixed", zone |-> "", off |-> m]

PytzInstance(z, m) == [kind |-> "pytz", zone |-> z, off |-> m]

\* The point on the UTC timeline of an aware datetime, as a timedelta since
\* ordinal 0.
UtcOf(dt) == NormTd(dt.day, dt.sec - 60 * utcoffset(dt.tz), dt.us)

\* t1 <= t2 for timedeltas in normal form.
TdLeq(t1, t2) ==
    \/ t1.days < t2.days
    \/ t1.days = t2.days /\ t1.seconds < t2.seconds
    \/ t1.days = t2.days /\ t1.seconds = t2.seconds /\ t1.us <= t2.us

-----------------------------------------------------------------------------
(* The timezone database (pytz), at the dates the model uses.              *)

\* Identifiers offered to the tools.
ZoneNames == {"UTC", "utc", "America/Sao_Paulo", "US/Eastern", "Invalid/Timezone"}

\* str.upper() on the identifiers above.
Upper(name) == IF name \in {"UTC", "utc"} THEN "UTC" ELSE name

\* Zones pytz.timezone() resolves; any other identifier raises
\* UnknownTimeZoneError.
PytzZones == {"America/Sao_Paulo", "US/Eastern"}

\* The first entry of a pytz zone's offset table, its local mean time
\* rounded to the minute: the offset of the object pytz.timezone() returns.
LmtOffset(zone) == IF zone = "US/Eastern" THEN -296 ELSE -186

\* The offset a zone's rules put in effect at a UTC instant t (a timedelta
\* since ordinal 0).  Only the transitions that bracket the modelled dates
\* are listed: the end of local mean time, and US/Eastern's daylight saving
\* time of 2025 (2025-03-09 07:00 UTC to 2025-11-02 06:00 UTC).
ZoneOffsetAtUtc(zone, t) ==
    IF zone = "US/Eastern"
    THEN IF TdLeq(t, [days |-> 687708, seconds |-> 61199, us |-> 999999])
         THEN -296
         ELSE IF /\ TdLeq([days |-> 739319, seconds |-> 25200, us |-> 0], t)
                 /\ TdLeq(t, [days |-> 739557, seconds |-> 21599, us |-> 999999])
              THEN -240
              ELSE -300
    ELSE IF TdLeq(t, [days |-> 698709, seconds |-> 11159, us |-> 999999])
         THEN -186
         ELSE -180

\* tz.fromutc(): the instance of the zone in effect at the UTC instant t.
FromUtc(tz, t) ==
    IF tz.kind = "pytz"
    THEN LET m == ZoneOffsetAtUtc(tz.zone, t)
             c == NormTd(t.days, t.seconds + 60 * m, t.us)
         IN  [day |-> c.days, sec |-> c.seconds, us |-> c.us,
              tz |-> PytzInstance(tz.zone, m)]
    ELSE LET c == NormTd(t.days, t.seconds + 60 * tz.off, t.us)
         IN  [day |-> c.days, sec |-> c.seconds, us |-> c.us, tz |-> tz]

-----------------------------------------------------------------------------
(* Datetime literals.  A literal is its text, the form of the text and     *)
(* the fields the text spells out.                                         *)

Lit(text, form, day, sec, us, off) ==
    [text |-> text, form |-> form, day |-> day, sec |-> sec, us |-> us, off |-> off]

EmptyLiteral == Lit("", "empty", 0, 0, 0, 0)

SpaceLiterals ==
    { Lit("2025-09-09 10:00:00", "space", 739503, 36000, 0, 0),
      Lit("2025-09-09 14:30:00", "space", 739503, 52200, 0, 0),
      Lit("2025-01-15 10:00:00", "space", 739266, 36000, 0, 0),
      Lit("1400-01-01 00:00:00", "space", 510975, 0, 0, 0) }

IsoNaiveLiterals ==
    { Lit("2025-09-09T10:00:00", "isoNaive", 739503, 36000, 0, 0),
      Lit("2025-09-08T09:59:15", "isoNaive", 739502, 35955, 0, 0) }

IsoOffsetLiterals ==
    { Lit("2025-09-09T10:00:00Z", "isoZ", 739503, 36000, 0, 0),
      Lit("2025-09-09T13:06:00Z", "isoZ", 739503, 47160, 0, 0),
      Lit("2025-09-09T10:00:45+00:00", "isoOffset", 739503, 36045, 0, 0),
      Lit("2025-09-09T07:05:00-03:00", "isoOffset", 739503, 25500, 0, -180),
      Lit("2025-09-09T15:00:00.999999+00:00", "isoOffset", 739503, 54000, 999999, 0) }

InvalidLiterals ==
    { Lit("invalid-date", "invalid", 0, 0, 0, 0),
      Lit("2025-13-45T99:99:99", "invalidT", 0, 0, 0, 0) }

\* The two accepted shapes: space-separated, and ISO with no suffix, with Z
\* or with a numeric offset.
AcceptedLiterals == SpaceLiterals \cup IsoNaiveLiterals \cup IsoOffsetLiterals

Literals == AcceptedLiterals \cup InvalidLiterals \cup {EmptyLiteral}

\* 'T' in text
HasT(lit) == lit.form \in {"isoNaive", "isoZ", "isoOffset", "invalidT"}

\* datetime.fromisoformat(text.replace('Z', '+00:00')): naive without a
\* suffix, else aware with the literal's own offset; ValueError otherwise.
FromIsoFormat(lit) ==
    CASE lit.form = "isoNaive" ->
            [ok |-> TRUE, dt |-> [day |-> lit.day, sec |-> lit.sec, us |-> lit.us, tz |-> Naive]]
      [] lit.form = "isoZ" ->
            [ok |-> TRUE, dt |-> [day |-> lit.day, sec |-> lit.sec, us |-> lit.us, tz |-> FixedOffset(0)]]
      [] lit.form = "isoOffset" ->
            [ok |-> TRUE, dt |-> [day |-> lit.day, sec |-> lit.sec, us |-> lit.us, tz |-> FixedOffset(lit.off)]]
      [] OTHER ->
            [ok |-> FALSE, dt |-> [day |-> 0, sec |-> 0, us |-> 0, tz |-> Naive]]

\* datetime.strptime(text, "%Y-%m-%d %H:%M:%S"): a naive datetime, or
\* ValueError.
Strptime(lit) ==
    IF lit.form = "space"
    THEN [ok |-> TRUE, dt |-> [day |-> lit.day, sec |-> lit.sec, us |-> 0, tz |-> Naive]]
    ELSE [ok |-> FALSE, dt |-> [day |-> 0, sec |-> 0, us |-> 0, tz |-> Naive]]

\* dt.replace(tzinfo=tz): the civil fields are kept and tz is attached as it
\* is; for a pytz zone that is the object pytz.timezone() returned.
ReplaceTzinfo(dt, tz) == [dt EXCEPT !.tz = tz]

\* A variant of the parse below that takes a Z literal as local time of tz.
ParseDatetimeZLocal(lit, tz) ==
    IF HasT(lit)
    THEN LET p == FromIsoFormat(lit)
         IN  IF lit.form = "isoZ" THEN [ok |-> TRUE, dt |-> ReplaceTzinfo(p.dt, tz)] ELSE p
    ELSE LET p == Strptime(lit)
         IN  IF p.ok THEN [ok |-> TRUE, dt |-> ReplaceTzinfo(p.dt, tz)] ELSE p

\* The parse of one literal (the body of each inner try).
ParseDatetime(lit, tz) ==
    IF HasT(lit)
    THEN FromIsoFormat(lit)
    ELSE LET p == Strptime(lit)
         IN  IF p.ok THEN [ok |-> TRUE, dt |-> ReplaceTzinfo(p.dt, tz)] ELSE p

\* The tzinfo chosen for timezone_name, or UnknownTimeZoneError.
ParseTimezone(name) ==
    IF Upper(name) = "UTC"
    THEN [ok |-> TRUE, tz |-> FixedOffset(0)]
    ELSE IF name \in PytzZones
         THEN [ok |-> TRUE, tz |-> PytzInstance(name, LmtOffset(name))]
         ELSE [ok |-> FALSE, tz |-> Naive]

\* datetime.now(tz) at the clock reading t.
Now(tz, t) == FromUtc(tz, t)

-----------------------------------------------------------------------------
(* The difference of two datetimes and its breakdown.                      *)

\* end_dt - start_dt (datetime.__sub__): TypeError when exactly one operand
\* is naive; the difference of the civil fields when both carry the same
\* tzinfo (or none); otherwise the difference of the two UTC instants.
Sub(end_dt, start_dt) ==
    IF (end_dt.tz.kind = "naive") # (start_dt.tz.kind = "naive")
    THEN [ok |-> FALSE, td |-> NormTd(0, 0, 0)]
    ELSE LET base == NormTd(end_dt.day - start_dt.day, end_dt.sec - start_dt.sec,
                            end_dt.us - start_dt.us)
         IN  IF end_dt.tz = start_dt.tz
             THEN [ok |-> TRUE, td |-> base]
             ELSE [ok |-> TRUE,
                   td |-> NormTd(base.days,
                                 base.seconds + 60 * (utcoffset(start_dt.tz) - utcoffset(end_dt.tz)),
                                 base.us)]

\* (d, s) >= (d0, s0) as counts of whole seconds.
SecondsGeq(d, s, d0, s0) == d > d0 \/ (d = d0 /\ s >= s0)

\* Half the spacing of the IEEE doubles around a count of (d, s) whole
\* seconds, in whole microseconds (rounded down): a double keeps 53
\* significant bits, so from 2^34 seconds on the spacing exceeds a
\* microsecond.  The pairs are 2^34 .. 2^38 seconds as (days, seconds).
HalfUlpMicros(d, s) ==
    IF SecondsGeq(d, s, 3181457, 22144) THEN 30
    ELSE IF SecondsGeq(d, s, 1590728, 54272) THEN 15
    ELSE IF SecondsGeq(d, s, 795364, 27136) THEN 7
    ELSE IF SecondsGeq(d, s, 397682, 13568) THEN 3
    ELSE IF SecondsGeq(d, s, 198841, 6784) THEN 1
    ELSE 0

\* abs(time_diff.total_seconds()): the double nearest to the exact count of
\* seconds of the magnitude of td.  The double is kept as its whole part
\* (d, s) and the place of its fraction relative to one half.
AbsTotalSeconds(td) ==
    LET mag == IF td.days < 0 THEN NegTd(td) ELSE td
        h   == HalfUlpMicros(mag.days, mag.seconds)
        up  == NormTd(mag.days, mag.seconds + 1, 0)
    IN  IF mag.us <= h
        THEN [d |-> mag.days, s |-> mag.seconds, frac |-> "zero"]
        ELSE IF 1000000 - mag.us <= h
        THEN [d |-> up.days, s |-> up.seconds, frac |-> "zero"]
        ELSE IF mag.us - 500000 <= h /\ 500000 - mag.us <= h
        THEN [d |-> mag.days, s |-> mag.seconds, frac |-> "half"]
        ELSE [d |-> mag.days, s |-> mag.seconds,
              frac |-> IF mag.us < 500000 THEN "low" ELSE "high"]

\* int(total_seconds // 86400)
Days(ts) == ts.d

\* int((total_seconds % 86400) // 3600)
Hours(ts) == ts.s \div 3600

\* int((total_seconds % 3600) // 60); 3600 divides 86400, so the remainder
\* is that of the second of the day.
Minutes(ts) == (ts.s % 3600) \div 60

\* int(total_seconds % 60)
Seconds(ts) == ts.s % 60

\* A variant of the direction below that compares with > 0.
DirectionStrict(td) ==
    IF td.days > 0 \/ (td.days = 0 /\ (td.seconds > 0 \/ td.us > 0)) THEN "later" ELSE "earlier"

\* "later" if time_diff.total_seconds() >= 0 else "earlier": the double has
\* the sign of the timedelta, which its days field carries.
Direction(td) == IF td.days >= 0 THEN "later" ELSE "earlier"

\* f"{total_seconds:,.0f}": the double rounded to a whole number of seconds,
\* halves to even.
TotalDuration(ts) ==
    IF ts.frac = "high" \/ (ts.frac = "half" /\ ts.s % 2 = 1)
    THEN LET up == NormTd(ts.d, ts.s + 1, 0) IN [d |-> up.days, s |-> up.seconds]
    ELSE [d |-> ts.d, s |-> ts.s]

-----------------------------------------------------------------------------
(* The texts the tools return, as records of their parts.                  *)

Unit(name, value) == [unit |-> name, value |-> value]

NoSummary == [units |-> <<>>, direction |-> ""]

NoDatetime == [day |-> 0, sec |-> 0, us |-> 0, tz |-> Naive]

\* The parts a text can have; each tool fills in its own.
Blank ==
    [kind |-> "none", marker |-> FALSE, hint |-> FALSE, echo |-> "", cause |-> "",
     fields |-> {}, evaluated |-> <<>>, from |-> NoDatetime, to |-> NoDatetime,
     timezone |-> "", format |-> "", total |-> [d |-> 0, s |-> 0],
     days |-> 0, hours |-> 0, minutes |-> 0, seconds |-> 0,
     summary |-> NoSummary, layout |-> "", datetime |-> NoDatetime, offset |-> 0]

\* "Unknown timezone: {timezone_name}" and the "Try:" hint.
UnknownTimezoneText(timezone_name, log) ==
    [Blank EXCEPT !.kind = "UnknownTimezone", !.marker = TRUE, !.hint = TRUE,
                  !.echo = timezone_name, !.evaluated = log]

\* "Invalid start|end datetime format: {literal}" and the "Use:" hint.
InvalidFormatText(which, lit, log) ==
    [Blank EXCEPT !.kind = IF which = "start" THEN "InvalidStart" ELSE "InvalidEnd",
                  !.marker = TRUE, !.hint = TRUE, !.echo = lit.text, !.evaluated = log]

\* "Error calculating time difference: {str(e)}" / "Error getting current
\* datetime: {str(e)}": the marker and the cause, no hint.
UnexpectedFailureText(cause, log) ==
    [Blank EXCEPT !.kind = "UnexpectedFailure", !.marker = TRUE, !.cause = cause,
                  !.evaluated = log]

\* A variant of the Summary line that tests the hours before the days.
SummaryHoursFirst(days, hours, minutes, seconds, direction) ==
    IF hours > 0
    THEN [units |-> <<Unit("hours", hours), Unit("minutes", minutes)>>, direction |-> direction]
    ELSE IF days > 0
    THEN [units |-> <<Unit("days", days), Unit("hours", hours), Unit("minutes", minutes)>>,
          direction |-> direction]
    ELSE IF minutes > 0
    THEN [units |-> <<Unit("minutes", minutes), Unit("seconds", seconds)>>, direction |-> direction]
    ELSE [units |-> <<Unit("seconds", seconds)>>, direction |-> direction]

\* A variant of the Summary line that lists all four units.
SummaryAllUnits(days, hours, minutes, seconds, direction) ==
    [units |-> <<Unit("days", days), Unit("hours", hours), Unit("minutes", minutes),
                 Unit("seconds", seconds)>>,
     direction |-> direction]

\* The Summary line.
Summary(days, hours, minutes, seconds, direction) ==
    IF days > 0
    THEN [units |-> <<Unit("days", days), Unit("hours", hours), Unit("minutes", minutes)>>,
          direction |-> direction]
    ELSE IF hours > 0
    THEN [units |-> <<Unit("hours", hours), Unit("minutes", minutes)>>, direction |-> direction]
    ELSE IF minutes > 0
    THEN [units |-> <<Unit("minutes", minutes), Unit("seconds", seconds)>>, direction |-> direction]
    ELSE [units |-> <<Unit("seconds", seconds)>>, direction |-> direction]

\* The success text of calculate_time_difference.
FormatDifference(start_dt, end_dt, timezone_name, td, log) ==
    LET ts == AbsTotalSeconds(td)
    IN  [Blank EXCEPT !.kind = "success",
                      !.fields = {"From", "To", "Timezone", "Total Duration", "Breakdown", "Summary"},
                      !.evaluated = log,
                      !.from = start_dt, !.to = end_dt, !.timezone = timezone_name,
                      !.total = TotalDuration(ts),
                      !.days = Days(ts), !.hours = Hours(ts),
                      !.minutes = Minutes(ts), !.seconds = Seconds(ts),
                      !.summary = Summary(Days(ts), Hours(ts), Minutes(ts), Seconds(ts),
                                          Direction(td))]

-----------------------------------------------------------------------------
(* The two tools, as functions of their arguments and the clock reading t. *)

\* Format kinds offered to get_current_datetime.
FormatTypes ==
    {"iso", "ISO", "readable", "Readable", "timestamp", "TIMESTAMP", "custom", "verbose", ""}

\* str.lower() on the kinds above.
Lower(format_type) ==
    CASE format_type = "ISO" -> "iso"
      [] format_type = "Readable" -> "readable"
      [] format_type = "TIMESTAMP" -> "timestamp"
      [] OTHER -> format_type

\* A variant of the layout below that compares format_type as supplied.
LayoutCaseSensitive(format_type) ==
    IF format_type \in {"iso", "readable", "timestamp"} THEN format_type ELSE "custom"

\* The layout the if/elif chain on format_type.lower() picks.
Layout(format_type) ==
    IF Lower(format_type) \in {"iso", "readable", "timestamp"}
    THEN Lower(format_type)
    ELSE "custom"

\* The clock is read first, then the timezone resolved.  On the modelled
\* arguments nothing in the body raises but UnknownTimeZoneError, so the
\* generic handler of this tool returns no text here.
get_current_datetime(timezone_name, format_type, t) ==
    LET target_time ==
            IF Upper(timezone_name) = "UTC"
            THEN FromUtc(FixedOffset(0), t)
            ELSE FromUtc(ParseTimezone(timezone_name).tz, t)
    IN  IF Upper(timezone_name) # "UTC" /\ ~ParseTimezone(timezone_name).ok
        THEN UnknownTimezoneText(timezone_name, <<"clock", "timezone">>)
        ELSE [Blank EXCEPT !.kind = "success",
                           !.fields = {"Timezone", "Format", "DateTime", "UTC Offset"},
                           !.evaluated = <<"clock", "timezone">>,
                           !.timezone = timezone_name, !.format = format_type,
                           !.layout = Layout(format_type), !.datetime = target_time,
                           !.offset = utcoffset(target_time.tz)]

\* A variant of the parsing below that takes the end literal (or the clock)
\* before the start literal.
ParseEndFirst(start_datetime, end_datetime, tz, t) ==
    LET s == ParseDatetime(start_datetime, tz)
        e == IF end_datetime.text # ""
             THEN ParseDatetime(end_datetime, tz)
             ELSE [ok |-> TRUE, dt |-> Now(tz, t)]
        l == <<IF end_datetime.text # "" THEN "end" ELSE "clock", "start">>
    IN  IF ~e.ok
        THEN [failed |-> "end", start_dt |-> NoDatetime, end_dt |-> NoDatetime, log |-> l]
        ELSE IF ~s.ok
        THEN [failed |-> "start", start_dt |-> NoDatetime, end_dt |-> NoDatetime, log |-> l]
        ELSE [failed |-> "", start_dt |-> s.dt, end_dt |-> e.dt, log |-> l]

\* The start literal, then the end literal or, when it is empty, the clock;
\* the first literal that does not parse ends the parsing.
ParseStartAndEnd(start_datetime, end_datetime, tz, t) ==
    LET s == ParseDatetime(start_datetime, tz)
    IN  IF ~s.ok
        THEN [failed |-> "start", start_dt |-> NoDatetime, end_dt |-> NoDatetime,
              log |-> <<"start">>]
        ELSE IF end_datetime.text # ""
        THEN LET e == ParseDatetime(end_datetime, tz)
             IN  IF ~e.ok
                 THEN [failed |-> "end", start_dt |-> NoDatetime, end_dt |-> NoDatetime,
                       log |-> <<"start", "end">>]
                 ELSE [failed |-> "", start_dt |-> s.dt, end_dt |-> e.dt,
                       log |-> <<"start", "end">>]
        ELSE [failed |-> "", start_dt |-> s.dt, end_dt |-> Now(tz, t),
              log |-> <<"start", "clock">>]

\* Timezone, literals, difference, text; a TypeError of the subtraction is
\* caught by the generic handler.
calculate_time_difference(start_datetime, end_datetime, timezone_name, t) ==
    LET z == ParseTimezone(timezone_name)
    IN  IF ~z.ok
        THEN UnknownTimezoneText(timezone_name, <<"timezone">>)
        ELSE LET p == ParseStartAndEnd(start_datetime, end_datetime, z.tz, t)
                 time_diff == Sub(p.end_dt, p.start_dt)
             IN  IF p.failed = "start"
                 THEN InvalidFormatText("start", start_datetime, <<"timezone">> \o p.log)
                 ELSE IF p.failed = "end"
                 THEN InvalidFormatText("end", end_datetime, <<"timezone">> \o p.log)
                 ELSE IF ~time_diff.ok
                 THEN UnexpectedFailureText("TypeError",
                                            <<"timezone">> \o p.log \o <<"difference">>)
                 ELSE FormatDifference(p.start_dt, p.end_dt, timezone_name, time_diff.td,
                                       <<"timezone">> \o p.log \o <<"difference">>)

-----------------------------------------------------------------------------
(* The state machine: a wall clock, and the host invoking the tools one    *)
(* request at a time.                                                      *)

\* The advances of the wall clock between two readings.
ClockSteps ==
    { [seconds |-> 0, us |-> 1], [seconds |-> 0, us |-> 999999], [seconds |-> 3599, us |-> 0] }

NoCall ==
    [op |-> "none", start_datetime |-> EmptyLiteral, end_datetime |-> EmptyLiteral,
     timezone_name |-> "", format_type |-> "", at |-> NormTd(0, 0, 0)]

\* 2025-09-09 15:00:00.000000 UTC; nothing invoked yet.
Init ==
    /\ clock = NormTd(739503, 54000, 0)
    /\ ticks = 0
    /\ call = NoCall
    /\ result = Blank

Tick(step) ==
    /\ ticks < MaxTicks
    /\ clock' = NormTd(clock.days, clock.seconds + step.seconds, clock.us + step.us)
    /\ ticks' = ticks + 1
    /\ UNCHANGED <<call, result>>

GetCurrentDatetime(timezone_name, format_type) ==
    /\ call.op = "none"
    /\ call' = [NoCall EXCEPT !.op = "get_current_datetime",
                              !.timezone_name = timezone_name,
                              !.format_type = format_type, !.at = clock]
    /\ result' = get_current_datetime(timezone_name, format_type, clock)
    /\ UNCHANGED <<clock, ticks>>

CalculateTimeDifference(start_datetime, end_datetime, timezone_name) ==
    /\ call.op = "none"
    /\ call' = [NoCall EXCEPT !.op = "calculate_time_difference",
                              !.start_datetime = start_datetime,
                              !.end_datetime = end_datetime,
                              !.timezone_name = timezone_name, !.at = clock]
    /\ result' = calculate_time_difference(start_datetime, end_datetime, timezone_name, clock)
    /\ UNCHANGED <<clock, ticks>>

\* The host takes the returned text; the tools keep nothing between
\* invocations.
Return ==
    /\ call.op # "none"
    /\ call' = NoCall
    /\ result' = Blank
    /\ UNCHANGED <<clock, ticks>>

Next ==
    \/ Return
    \/ \E step \in ClockSteps : Tick(step)
    \/ \E timezone_name \in ZoneNames, format_type \in FormatTypes :
          GetCurrentDatetime(timezone_name, format_type)
    \/ \E start_datetime \in Literals, end_datetime \in Literals, timezone_name \in ZoneNames :
          CalculateTimeDifference(start_datetime, end_datetime, timezone_name)

Spec == Init /\ [][Next]_vars

-----------------------------------------------------------------------------
(* Vocabulary of the properties.                                           *)

\* An invocation of calculate_time_difference has returned.
Done == call.op = "calculate_time_difference"

Succeeded == Done /\ result.kind = "success"

ValidZoneNames == {n \in ZoneNames : Upper(n) = "UTC" \/ n \in PytzZones}

\* The signed time from start_dt to end_dt on the timeline each datetime's
\* own offset places it on (civil time for a naive pair).
Elapsed(start_dt, end_dt) ==
    LET a == UtcOf(start_dt)
        b == UtcOf(end_dt)
    IN  NormTd(b.days - a.days, b.seconds - a.seconds, b.us - a.us)

Magnitude(td) == IF TdLeq(NormTd(0, 0, 0), td) THEN td ELSE NegTd(td)

\* The offsets the modelled zones take.
ZoneOffsets == {-186, -296, -180, -240, -300}

\* The civil moment (day, sec) of a zone as a UTC instant, under the offset
\* the zone's rules put in effect at that moment.
TrueInstant(zone, day, sec) ==
    LET m == CHOOSE o \in ZoneOffsets :
                 ZoneOffsetAtUtc(zone, NormTd(day, sec - 60 * o, 0)) = o
    IN  NormTd(day, sec - 60 * m, 0)

\* The names of the units the Summary lists, in order.
SummaryUnits == [i \in DOMAIN result.summary.units |-> result.summary.units[i].unit]

\* The value the Breakdown gives a unit.
BreakdownOf(unit) ==
    CASE unit = "days" -> result.days
      [] unit = "hours" -> result.hours
      [] unit = "minutes" -> result.minutes
      [] OTHER -> result.seconds

-----------------------------------------------------------------------------
(* Properties.                                                             *)

\* C1: the breakdown is the exact decomposition of the whole seconds of
\* |end - start|: days*86400 + hours*3600 + minutes*60 + seconds equals
\* floor(|end - start|), with 0 <= hours < 24, 0 <= minutes, seconds < 60 and
\* days >= 0; the sub-second remainder is never rounded up into it.  (The
\* whole seconds are compared as days and second of day.)
C1_BreakdownIsFloorOfDifference ==
    Succeeded =>
        LET m == Magnitude(Elapsed(result.from, result.to))
        IN  /\ result.days = m.days
            /\ result.hours * 3600 + result.minutes * 60 + result.seconds = m.seconds
            /\ result.days >= 0
            /\ result.hours \in 0..23
            /\ result.minutes \in 0..59
            /\ result.seconds \in 0..59

\* C2: the direction is "later" exactly when end - start >= 0 and "earlier"
\* exactly when it is negative; for one and the same instant the breakdown
\* is all zeros and the direction "later".
C2_DirectionFollowsSign ==
    Succeeded =>
        LET e == Elapsed(result.from, result.to)
        IN  /\ result.summary.direction = "later" <=> TdLeq(NormTd(0, 0, 0), e)
            /\ result.summary.direction = "earlier" <=> ~TdLeq(NormTd(0, 0, 0), e)
            /\ e = NormTd(0, 0, 0) =>
                  /\ result.days = 0 /\ result.hours = 0
                  /\ result.minutes = 0 /\ result.seconds = 0
                  /\ result.summary.direction = "later"

\* C2 witness: start and end are the same instant.
C2_Witness ==
    /\ Succeeded
    /\ Elapsed(result.from, result.to) = NormTd(0, 0, 0)
    /\ result.summary.direction = "later"
    /\ call.start_datetime # call.end_datetime

\* C3: for any two accepted literals a, b and any valid timezone, the calls
\* (a, b) and (b, a) report the same total duration and breakdown, and
\* opposite directions unless a and b are the same instant.
C3_Symmetry ==
    ( /\ Done
      /\ call.timezone_name \in ValidZoneNames
      /\ call.start_datetime \in AcceptedLiterals
      /\ call.end_datetime \in AcceptedLiterals ) =>
        LET back == calculate_time_difference(call.end_datetime, call.start_datetime,
                                              call.timezone_name, call.at)
        IN  /\ result.kind = "success"
            /\ back.kind = "success"
            /\ back.total = result.total
            /\ back.days = result.days /\ back.hours = result.hours
            /\ back.minutes = result.minutes /\ back.seconds = result.seconds
            /\ Elapsed(result.from, result.to) # NormTd(0, 0, 0) =>
                  back.summary.direction # result.summary.direction

\* C4: with a valid timezone, a start literal in either accepted shape and
\* an end literal that is empty or in either accepted shape, the call
\* succeeds.
C4_AcceptedShapesSucceed ==
    ( /\ Done
      /\ call.timezone_name \in ValidZoneNames
      /\ call.start_datetime \in AcceptedLiterals
      /\ call.end_datetime \in AcceptedLiterals \cup {EmptyLiteral} ) =>
        result.kind = "success"

\* C5: with a non-UTC zone, the total duration between two space-separated
\* literals, or between a space-separated start and now, is the time
\* elapsed between those civil moments under the offsets the zone's rules
\* put in effect at each.
C5_ZoneAwareElapsedTime ==
    ( /\ Succeeded
      /\ call.timezone_name \in PytzZones
      /\ call.start_datetime.form = "space"
      /\ call.end_datetime.form \in {"space", "empty"} ) =>
        LET a == TrueInstant(call.timezone_name, call.start_datetime.day,
                             call.start_datetime.sec)
            b == IF call.end_datetime.form = "empty"
                 THEN call.at
                 ELSE TrueInstant(call.timezone_name, call.end_datetime.day,
                                  call.end_datetime.sec)
            true_diff == NormTd(b.days - a.days, b.seconds - a.seconds, b.us - a.us)
        IN  result.total = TotalDuration(AbsTotalSeconds(true_diff))

\* C6: the failure checks are ordered and stop at the first failure: an
\* unknown timezone is reported before any literal is parsed; an invalid
\* start literal is reported, by its text, without the end literal being
\* parsed or the clock read, also when the end literal is invalid too; an
\* invalid end literal is reported only when timezone and start are valid;
\* and no failure text has a From, To, Total Duration, Breakdown or Summary
\* field.
C6_FailuresOrdered ==
    Done =>
        /\ call.timezone_name \notin ValidZoneNames =>
              /\ result.kind = "UnknownTimezone"
              /\ result.echo = call.timezone_name
              /\ result.evaluated = <<"timezone">>
        /\ ( /\ call.timezone_name \in ValidZoneNames
             /\ call.start_datetime \notin AcceptedLiterals ) =>
              /\ result.kind = "InvalidStart"
              /\ result.echo = call.start_datetime.text
              /\ \A i \in DOMAIN result.evaluated : result.evaluated[i] \notin {"end", "clock"}
        /\ result.kind = "InvalidEnd" =>
              /\ call.timezone_name \in ValidZoneNames
              /\ call.start_datetime \in AcceptedLiterals
              /\ call.end_datetime \in InvalidLiterals
              /\ result.echo = call.end_datetime.text
        /\ result.kind # "success" =>
              /\ result.fields = {}
              /\ result.summary = NoSummary

\* C6 witness: start and end literal are both invalid, and the start is
\* reported.
C6_Witness ==
    /\ Done
    /\ call.start_datetime \in InvalidLiterals
    /\ call.end_datetime \in InvalidLiterals
    /\ result.kind = "InvalidStart"
    /\ result.evaluated = <<"timezone", "start">>

\* C7: every invocation of either tool returns a text, and every failure
\* text begins with the failure marker and includes its kind's remediation
\* hint.
C7_FailuresCarryMarkerAndHint ==
    call.op # "none" =>
        /\ result.kind \in {"success", "UnknownTimezone", "InvalidStart", "InvalidEnd",
                            "UnexpectedFailure"}
        /\ result.kind # "success" => result.marker /\ result.hint

\* C8: when start and end are both ISO literals with their own offset or Z,
\* every valid timezone_name gives the same total duration, breakdown,
\* direction and summary.
C8_ExplicitOffsetsDecide ==
    ( /\ Done
      /\ call.timezone_name \in ValidZoneNames
      /\ call.start_datetime \in IsoOffsetLiterals
      /\ call.end_datetime \in IsoOffsetLiterals ) =>
        \A n \in ValidZoneNames :
            LET other == calculate_time_difference(call.start_datetime, call.end_datetime,
                                                   n, call.at)
            IN  /\ result.kind = "success"
                /\ other.kind = "success"
                /\ other.total = result.total
                /\ other.days = result.days /\ other.hours = result.hours
                /\ other.minutes = result.minutes /\ other.seconds = result.seconds
                /\ other.summary = result.summary
                /\ other.from = result.from /\ other.to = result.to
                /\ Elapsed(other.from, other.to) = Elapsed(result.from, result.to)

\* C8 witness: a Z literal and a numeric-offset literal under a non-UTC zone.
C8_Witness ==
    /\ Succeeded
    /\ call.timezone_name \in PytzZones
    /\ call.start_datetime.form = "isoZ"
    /\ call.end_datetime.form = "isoOffset"
    /\ call.end_datetime.off # 0
    /\ result.minutes > 0

\* C9: the Summary is chosen by strict precedence on the breakdown: days,
\* hours, minutes when days > 0; else hours, minutes when hours > 0; else
\* minutes, seconds when minutes > 0; else seconds alone; each listed with
\* its breakdown value, and the direction word appended in all four cases.
C9_SummaryPrecedence ==
    Succeeded =>
        /\ result.days > 0 => SummaryUnits = <<"days", "hours", "minutes">>
        /\ result.days = 0 /\ result.hours > 0 => SummaryUnits = <<"hours", "minutes">>
        /\ result.days = 0 /\ result.hours = 0 /\ result.minutes > 0 =>
              SummaryUnits = <<"minutes", "seconds">>
        /\ result.days = 0 /\ result.hours = 0 /\ result.minutes = 0 =>
              SummaryUnits = <<"seconds">>
        /\ \A i \in DOMAIN result.summary.units :
              result.summary.units[i].value = BreakdownOf(result.summary.units[i].unit)
        /\ result.summary.direction =
              IF TdLeq(NormTd(0, 0, 0), Elapsed(result.from, result.to))
              THEN "later" ELSE "earlier"

\* C9 witness: days and hours are both positive and the Summary starts at
\* the days.
C9_Witness ==
    /\ Succeeded
    /\ result.days > 0
    /\ result.hours > 0
    /\ SummaryUnits = <<"days", "hours", "minutes">>
    /\ result.summary.direction = "earlier"

\* C10, as claimed: the Summary never lists more than two units and never
\* lists a unit whose value is zero.
C10_AtMostTwoNonZeroUnits ==
    Succeeded =>
        /\ Len(result.summary.units) <= 2
        /\ \A i \in DOMAIN result.summary.units : result.summary.units[i].value # 0

\* C10, amended: the Summary starts at the most significant non-zero unit
\* of the breakdown (at the seconds when all are zero) and lists at most
\* three units, three only when days > 0 and the seconds never next to
\* days or hours; its first unit is zero only when the whole breakdown is
\* zero, and the units after the first may be zero.
C10_SummaryStartsAtLeadingUnit ==
    Succeeded =>
        LET units == result.summary.units
            order == <<"days", "hours", "minutes", "seconds">>
            first == CHOOSE k \in 1..4 : order[k] = units[1].unit
        IN  /\ Len(units) \in 1..3
            /\ Len(units) = 3 => result.days > 0
            /\ \A k \in 1..4 : k < first => BreakdownOf(order[k]) = 0
            /\ \A i \in DOMAIN units : first + i - 1 <= 4 /\ units[i].unit = order[first + i - 1]
            /\ units[1].value = 0 =>
                  result.days = 0 /\ result.hours = 0 /\ result.minutes = 0 /\ result.seconds = 0
            /\ \A i \in DOMAIN units : units[i].value = BreakdownOf(units[i].unit)
            /\ Len(units) >= 2 => ~(units[1].unit \in {"days", "hours"} /\
                                    \E i \in DOMAIN units : units[i].unit = "seconds")

\* C10 witness: three units are listed, the last of them zero.
C10_Witness ==
    /\ Succeeded
    /\ Len(result.summary.units) = 3
    /\ result.summary.units[3].value = 0
    /\ result.hours > 0

\* C11: for every timezone_name that is UTC in any letter case or resolves
\* in the timezone database, and every format_type, get_current_datetime
\* returns a success text with the Timezone, Format and DateTime lines,
\* timezone_name and format_type echoed as supplied; format_type is matched
\* against iso, readable and timestamp whatever its letter case, and any
\* other value gets the custom layout, never a failure.
C11_CurrentDatetimeEchoesArguments ==
    ( /\ call.op = "get_current_datetime"
      /\ call.timezone_name \in ValidZoneNames ) =>
        /\ result.kind = "success"
        /\ ~result.marker
        /\ {"Timezone", "Format", "DateTime"} \subseteq result.fields
        /\ result.timezone = call.timezone_name
        /\ result.format = call.format_type
        /\ call.format_type \in {"iso", "ISO"} => result.layout = "iso"
        /\ call.format_type \in {"readable", "Readable"} => result.layout = "readable"
        /\ call.format_type \in {"timestamp", "TIMESTAMP"} => result.layout = "timestamp"
        /\ call.format_type \in {"custom", "verbose", ""} => result.layout = "custom"
        /\ UtcOf(result.datetime) = call.at

\* C11 witness: UTC in lower case and a kind in upper case, both echoed as
\* supplied.
C11_Witness ==
    /\ call.op = "get_current_datetime"
    /\ call.timezone_name = "utc"
    /\ call.format_type = "TIMESTAMP"
    /\ result.kind = "success"
    /\ result.timezone = "utc"
    /\ result.format = "TIMESTAMP"
    /\ result.layout = "timestamp"

====
